---- MODULE Spec2Model ----
(***************************************************************************)
(* Model of the monitoring service of pokt-calculator:                     *)
(*   - pocketProvider.BlockTime, pocketProvider.Node and doRequest         *)
(*     (the provider that talks to the remote node and to the block-time   *)
(*     cache), and                                                         *)
(*   - MonthlyRewardsEndpoint (the assembly and ordering of the monthly    *)
(*     reward summaries).                                                  *)
(***************************************************************************)
EXTENDS Integers, Sequences, FiniteSets, TLC

(***************************************************************************)
(* Bounds of the model.                                                    *)
(***************************************************************************)
NumCallers == 2     \* goroutines that call BlockTime
MaxHeight == 3      \* block heights 1..MaxHeight
MaxChains == 2      \* length of a node's upstream chain list
MaxMonths == 3      \* monthly summaries returned by svc.RewardsByMonth
MaxTxs == 2         \* transactions over all the months of one request

Callers == 1..NumCallers
Heights == 1..MaxHeight

(***************************************************************************)
(* Values.                                                                 *)
(***************************************************************************)
Nil == "nil"
ZeroTime == 0                       \* time.Time{}

\* The time in the header of the block at height h, as the remote node
\* reports it in blkResponse.Block.Header.Time.
BlockHeaderTime(h) == 1000 + h

\* The chain ids the requests of the model carry; "0099" has no table entry.
ChainIDs == {"0021", "0099"}

\* pocket.ChainFromID: the chain of the static table, or the zero Chain and
\* an error for an id the table does not know.
ChainFromID(id) ==
    IF id = "0021"
    THEN [chain |-> [Name |-> "Ethereum Mainnet", ID |-> "0021"], err |-> Nil]
    ELSE [chain |-> [Name |-> "", ID |-> ""], err |-> "chain not found"]

(***************************************************************************)
(* State.                                                                  *)
(***************************************************************************)
VARIABLES
    cache,      \* blockTimesRepo: the stored entries, height -> time
    pc,         \* per caller: "idle", "get", "request", "set"
    height,     \* per caller: the argument of its BlockTime call
    getRes,     \* per caller: what blockTimesRepo.Get reported to this call
    remote,     \* per caller: how the remote lookup of this call ended
    setRes,     \* per caller: how blockTimesRepo.Set of this call ended
    fetched,    \* per caller: blkResponse.Block.Header.Time
    ret,        \* per caller: what the last BlockTime call returned
    resolved,   \* per height: the times successful BlockTime calls returned
    nodeRet,    \* the last pocketProvider.Node call: its input and result
    request,    \* MonthlyRewardsEndpoint: the request and what svc returns
    response    \* MonthlyRewardsEndpoint: the (response, err) it returned

vars == <<cache, pc, height, getRes, remote, setRes, fetched, ret, resolved,
          nodeRet, request, response>>

NoRet == [kind |-> "none", time |-> ZeroTime]
NoNode == [kind |-> "none", upstream |-> <<>>, chains |-> <<>>]
NoRequest == [kind |-> "none", months |-> <<>>]
NoResponse == [kind |-> "none", isNil |-> TRUE, resp |-> <<>>]

(***************************************************************************)
(* doRequest: the outcomes of one POST to the remote node.                 *)
(*   ok                 the body is read                                   *)
(*   read_err           ioutil.ReadAll fails                               *)
(*   transport_err_resp client.Do fails and returns a non-nil response     *)
(*                      (a CheckRedirect failure)                          *)
(*   transport_err_nil  client.Do fails and returns a nil response: the    *)
(*                      deferred resp.Body.Close() is evaluated before the *)
(*                      error check and dereferences nil                   *)
(***************************************************************************)
ClientOutcomes == {"ok", "read_err", "transport_err_resp", "transport_err_nil"}

doRequest(o) ==
    CASE o = "ok" -> "body"
      [] o = "transport_err_nil" -> "panic"
      [] OTHER -> "error"

\* json.Unmarshal of the body: it parses or it does not.
BodyKinds == {"well_formed", "malformed"}

\* How the remote lookup of a caller ends: doRequest followed by Unmarshal.
Lookup(o, b) ==
    IF doRequest(o) = "body"
    THEN (IF b = "well_formed" THEN "parsed" ELSE "error")
    ELSE doRequest(o)

(***************************************************************************)
(* pocketProvider.BlockTime, one action per blocking call.                 *)
(***************************************************************************)
\* A caller enters BlockTime(h).
Begin(c, h) ==
    /\ pc[c] = "idle"
    /\ pc' = [pc EXCEPT ![c] = "get"]
    /\ height' = [height EXCEPT ![c] = h]
    /\ getRes' = [getRes EXCEPT ![c] = "none"]
    /\ remote' = [remote EXCEPT ![c] = "none"]
    /\ setRes' = [setRes EXCEPT ![c] = "none"]
    /\ fetched' = [fetched EXCEPT ![c] = ZeroTime]
    /\ ret' = [ret EXCEPT ![c] = NoRet]
    /\ UNCHANGED <<cache, resolved, nodeRet, request, response>>

\* blockTimesRepo.Get(height): (t, exists, err).  A failing Get reports
\* exists = false; BlockTime never reads err.
RepoGet(h, ok) ==
    IF ok /\ h \in DOMAIN cache
    THEN [t |-> cache[h], exists |-> TRUE, err |-> Nil]
    ELSE [t |-> ZeroTime, exists |-> FALSE, err |-> IF ok THEN Nil ELSE "get failed"]

\* The test of the cached entry with a wrong test of err added to it.
CacheHitWhenErr(g) == g.exists /\ g.err # Nil

\* `if exists { return cached, nil }`
CacheHit(g) == g.exists

DoGet(c) ==
    /\ pc[c] = "get"
    /\ \E ok \in BOOLEAN :
         LET g == RepoGet(height[c], ok) IN
         /\ getRes' = [getRes EXCEPT ![c] =
                IF g.exists THEN "hit" ELSE IF g.err = Nil THEN "miss" ELSE "err"]
         /\ IF CacheHit(g)
            THEN /\ pc' = [pc EXCEPT ![c] = "idle"]
                 /\ ret' = [ret EXCEPT ![c] = [kind |-> "ok", time |-> g.t]]
                 /\ resolved' = [resolved EXCEPT ![height[c]] = @ \cup {g.t}]
            ELSE /\ pc' = [pc EXCEPT ![c] = "request"]
                 /\ UNCHANGED <<ret, resolved>>
    /\ UNCHANGED <<cache, height, remote, setRes, fetched, nodeRet, request, response>>

\* What BlockTime returns when the remote lookup did not yield a block.
LookupFailure(l) ==
    IF l = "panic"
    THEN [kind |-> "panic", time |-> ZeroTime]
    ELSE [kind |-> "error", time |-> ZeroTime]

DoRequest(c) ==
    /\ pc[c] = "request"
    /\ \E o \in ClientOutcomes, b \in BodyKinds :
         LET l == Lookup(o, b) IN
         /\ remote' = [remote EXCEPT ![c] =
                IF o # "ok" THEN o ELSE IF b = "malformed" THEN "malformed" ELSE "ok"]
         /\ IF l = "parsed"
            THEN /\ pc' = [pc EXCEPT ![c] = "set"]
                 /\ fetched' = [fetched EXCEPT ![c] = BlockHeaderTime(height[c])]
                 /\ UNCHANGED ret
            ELSE /\ pc' = [pc EXCEPT ![c] = "idle"]
                 /\ ret' = [ret EXCEPT ![c] = LookupFailure(l)]
                 /\ UNCHANGED fetched
    /\ UNCHANGED <<cache, height, getRes, setRes, resolved, nodeRet, request, response>>

\* blockTimesRepo.Set(height, t) when it succeeds.
RepoSet(store, h, t) ==
    [k \in DOMAIN store \cup {h} |-> IF k = h THEN t ELSE store[k]]

\* `if err = p.blockTimesRepo.Set(...); err != nil { return time.Time{}, ... }`
\* and `return blkResponse.Block.Header.Time, nil`.
AfterSet(t, ok) ==
    IF ok
    THEN [kind |-> "ok", time |-> t]
    ELSE [kind |-> "error", time |-> ZeroTime]

DoSet(c) ==
    /\ pc[c] = "set"
    /\ \E ok \in BOOLEAN :
         LET r == AfterSet(fetched[c], ok) IN
         /\ setRes' = [setRes EXCEPT ![c] = IF ok THEN "ok" ELSE "err"]
         /\ cache' = IF ok THEN RepoSet(cache, height[c], fetched[c]) ELSE cache
         /\ ret' = [ret EXCEPT ![c] = r]
         /\ resolved' = IF r.kind = "ok"
                        THEN [resolved EXCEPT ![height[c]] = @ \cup {r.time}]
                        ELSE resolved
         /\ pc' = [pc EXCEPT ![c] = "idle"]
    /\ UNCHANGED <<height, getRes, remote, fetched, nodeRet, request, response>>

(***************************************************************************)
(* pocketProvider.Node.                                                    *)
(***************************************************************************)
RECURSIVE SeqsUpTo(_, _)
SeqsUpTo(S, n) ==
    IF n = 0 THEN {<<>>}
    ELSE LET shorter == SeqsUpTo(S, n - 1) IN
         shorter \cup {Append(s, x) : s \in {t \in shorter : Len(t) = n - 1}, x \in S}

\* The loop over nodeResponse.Chains: fail(err) is called and its result is
\* dropped, and chains[i] = ch stores what ChainFromID returned.
NodeChains(upstream) ==
    [i \in 1..Len(upstream) |-> ChainFromID(upstream[i]).chain]

Node ==
    /\ \E o \in ClientOutcomes, b \in BodyKinds, up \in SeqsUpTo(ChainIDs, MaxChains) :
         LET l == Lookup(o, b) IN
         nodeRet' = IF l = "parsed"
                    THEN [kind |-> "ok", upstream |-> up, chains |-> NodeChains(up)]
                    ELSE [kind |-> l, upstream |-> <<>>, chains |-> <<>>]
    /\ UNCHANGED <<cache, pc, height, getRes, remote, setRes, fetched, ret,
                   resolved, request, response>>

(***************************************************************************)
(* MonthlyRewardsEndpoint.                                                 *)
(***************************************************************************)
\* The (year, month) keys of the monthly summaries of the model.
Keys == {<<2022, 1>>, <<2022, 12>>, <<2023, 1>>, <<2023, 3>>}
RelayCounts == {1, 2}
\* Transaction hashes, unique over one request.
HashNames == <<"c4", "a9", "e1", "b7", "d2">>

\* Transaction.Chain(): the chain of the transaction's chain id.
TxChain(tx) == ChainFromID(tx.ChainID)

\* The transactionResponse built from one transaction (the fields the
\* summaries are compared on; the others are copied the same way).
TxResponse(tx) ==
    [Hash |-> tx.Hash, ChainID |-> tx.ChainID,
     Chain |-> [Name |-> TxChain(tx).chain.Name, ID |-> TxChain(tx).chain.ID],
     NumRelays |-> tx.NumRelays]

\* The transactions loop stopping one short of the end.
TxResponsesDropLast(txs) == [j \in 1..(Len(txs) - 1) |-> TxResponse(txs[j])]

\* resp[i].Transactions: one transactionResponse per transaction, at the
\* transaction's index.
TxResponses(txs) == [j \in 1..Len(txs) |-> TxResponse(txs[j])]

\* The loop over month.Transactions with `=` in place of `+=`.
RECURSIVE ByChainOverwrite(_)
ByChainOverwrite(txs) ==
    IF txs = <<>> THEN [ch \in {} |-> 0]
    ELSE LET before == ByChainOverwrite(SubSeq(txs, 1, Len(txs) - 1))
             tx == txs[Len(txs)]
         IN  [ch \in DOMAIN before \cup {tx.ChainID} |->
                 IF ch = tx.ChainID THEN tx.NumRelays ELSE before[ch]]

\* The byChain map after the loop over month.Transactions.
RECURSIVE ByChain(_)
ByChain(txs) ==
    IF txs = <<>> THEN [ch \in {} |-> 0]
    ELSE LET before == ByChain(SubSeq(txs, 1, Len(txs) - 1))
             tx == txs[Len(txs)]
             old == IF tx.ChainID \in DOMAIN before THEN before[tx.ChainID] ELSE 0
         IN  [ch \in DOMAIN before \cup {tx.ChainID} |->
                 IF ch = tx.ChainID THEN old + tx.NumRelays ELSE before[ch]]

\* The entry's name taken from ChainFromID's result whatever its error.
ByChainNameFromTable(ch) == ChainFromID(ch).chain.Name

\* The name of a relays_by_chain entry: the chain's name, or the id itself
\* when ChainFromID fails.
ByChainName(ch) ==
    IF ChainFromID(ch).err # Nil THEN ch ELSE ChainFromID(ch).chain.Name

ByChainResp(ch, num) == [Chain |-> ch, Name |-> ByChainName(ch), NumRelays |-> num]

\* The orders in which `range byChain` can visit the keys of the map.
Perms(S) == {p \in [1..Cardinality(S) -> S] : \A i, j \in DOMAIN p : i # j => p[i] # p[j]}

RECURSIVE Filter(_, _)
Filter(s, S) ==
    IF s = <<>> THEN <<>>
    ELSE IF s[1] \in S THEN <<s[1]>> \o Filter(Tail(s), S) ELSE Filter(Tail(s), S)

\* resp[i].RelaysByChain: one appended entry per key of byChain, in the
\* order the map iteration visits them.
RelaysByChain(txs, visit) ==
    LET byChain == ByChain(txs)
        order == Filter(visit, DOMAIN byChain)
    IN  [k \in 1..Len(order) |-> ByChainResp(order[k], byChain[order[k]])]

\* The monthlyRewardsResponse of one month.
MonthResponse(month, visit) ==
    [Year |-> month.Year, Month |-> month.Month,
     RelaysByChain |-> RelaysByChain(month.Transactions, visit),
     Transactions |-> TxResponses(month.Transactions)]

\* A less function that leaves the year out.
RespLessMonthOnly(a, b) == a.Month > b.Month

\* The less function handed to sort.Slice.
RespLess(a, b) ==
    IF a.Year = b.Year THEN a.Month > b.Month ELSE a.Year > b.Year

\* sort.Slice on a short slice is an insertion sort: each element moves left
\* while it is less than its left neighbour.
RECURSIVE InsertLeft(_, _)
InsertLeft(prefix, x) ==
    IF prefix = <<>> \/ ~RespLess(x, prefix[Len(prefix)])
    THEN Append(prefix, x)
    ELSE Append(InsertLeft(SubSeq(prefix, 1, Len(prefix) - 1), x), prefix[Len(prefix)])

RECURSIVE SortSlice(_)
SortSlice(s) ==
    IF s = <<>> THEN <<>>
    ELSE InsertLeft(SortSlice(SubSeq(s, 1, Len(s) - 1)), s[Len(s)])

\* The endpoint without the check of the error of svc.RewardsByMonth.
EndpointResultNoErrCheck(req, visits) ==
    IF req.kind = "badreq"
    THEN [kind |-> "error", isNil |-> TRUE, resp |-> <<>>]
    ELSE [kind |-> "ok", isNil |-> FALSE,
          resp |-> SortSlice([i \in 1..Len(req.months) |->
                                 MonthResponse(req.months[i], visits[i])])]

\* What the endpoint returns: (nil, err) for a request of the wrong type or
\* a failing svc.RewardsByMonth, else the sorted responses and a nil error.
EndpointResult(req, visits) ==
    IF req.kind # "ok"
    THEN [kind |-> "error", isNil |-> TRUE, resp |-> <<>>]
    ELSE [kind |-> "ok", isNil |-> FALSE,
          resp |-> SortSlice([i \in 1..Len(req.months) |->
                                 MonthResponse(req.months[i], visits[i])])]

MonthlyRewardsEndpoint ==
    /\ response.kind = "none"
    /\ \E visits \in [1..Len(request.months) -> Perms(ChainIDs)] :
         response' = EndpointResult(request, visits)
    /\ UNCHANGED <<cache, pc, height, getRes, remote, setRes, fetched, ret,
                   resolved, nodeRet, request>>

(***************************************************************************)
(* The requests of the model: what svc.RewardsByMonth returns.             *)
(***************************************************************************)
Tx(n, p) == [Hash |-> HashNames[n], ChainID |-> p[1], NumRelays |-> p[2]]

\* Transaction lists of at most k transactions, hashes from index first on.
TxLists(k, first) ==
    {[j \in 1..Len(p) |-> Tx(first + j - 1, p[j])] :
        p \in SeqsUpTo(ChainIDs \X RelayCounts, k)}

\* The transaction lists of n months, at most budget transactions in all.
RECURSIVE TxAssign(_, _, _)
TxAssign(n, budget, first) ==
    IF n = 0 THEN {<<>>}
    ELSE UNION {{<<l>> \o rest : rest \in TxAssign(n - 1, budget - Len(l), first + Len(l))} :
                    l \in TxLists(budget, first)}

KeyLists ==
    {s \in SeqsUpTo(Keys, MaxMonths) : \A i, j \in DOMAIN s : i # j => s[i] # s[j]}

\* The months svc.RewardsByMonth returns: one per key, in the order of ks.
Months(ks, txs) ==
    [i \in 1..Len(ks) |->
        [Year |-> ks[i][1], Month |-> ks[i][2], Transactions |-> txs[i]]]

\* A request of the wrong type ("badreq"), a failing svc.RewardsByMonth
\* ("svcerr", with whatever months come with the error), or the months of
\* the account ("ok").
RequestKinds == {"badreq", "svcerr", "ok"}

IsRequest(req) ==
    \E kind \in RequestKinds, ks \in KeyLists :
        /\ kind = "badreq" => ks = <<>>
        /\ \E txs \in TxAssign(Len(ks), IF kind = "ok" THEN MaxTxs ELSE 0, 1) :
             req = [kind |-> kind, months |-> Months(ks, txs)]

(***************************************************************************)
(* Specifications.                                                         *)
(***************************************************************************)
ProviderInit ==
    /\ cache = [h \in {} |-> ZeroTime]
    /\ pc = [c \in Callers |-> "idle"]
    /\ height = [c \in Callers |-> 1]
    /\ getRes = [c \in Callers |-> "none"]
    /\ remote = [c \in Callers |-> "none"]
    /\ setRes = [c \in Callers |-> "none"]
    /\ fetched = [c \in Callers |-> ZeroTime]
    /\ ret = [c \in Callers |-> NoRet]
    /\ resolved = [h \in Heights |-> {}]
    /\ nodeRet = NoNode

Init ==
    /\ ProviderInit
    /\ request = NoRequest
    /\ response = NoResponse

\* The provider when the BlockTime calls come one after the other: a single
\* goroutine calls BlockTime again and again.
Main == CHOOSE c \in Callers : \A d \in Callers : c <= d

Next ==
    \/ \E h \in Heights : Begin(Main, h)
    \/ DoGet(Main)
    \/ DoRequest(Main)
    \/ DoSet(Main)

Spec == Init /\ [][Next]_vars

\* The provider when BlockTime calls of several goroutines overlap, and
\* Node is called.
NextConc ==
    \/ \E c \in Callers, h \in Heights : Begin(c, h)
    \/ \E c \in Callers : DoGet(c)
    \/ \E c \in Callers : DoRequest(c)
    \/ \E c \in Callers : DoSet(c)
    \/ Node

ConcSpec == Init /\ [][NextConc]_vars

\* One call of MonthlyRewardsEndpoint on each request of the model.
EndpointInit ==
    /\ ProviderInit
    /\ IsRequest(request)
    /\ response = NoResponse

EndpointNext == MonthlyRewardsEndpoint

EndpointSpec == EndpointInit /\ [][EndpointNext]_vars

(***************************************************************************)
(* Helpers of the properties.                                              *)
(***************************************************************************)
KeyOf(m) == <<m.Year, m.Month>>
Hashes(txs) == [j \in 1..Len(txs) |-> txs[j].Hash]
UnknownChain(id) == ChainFromID(id).err # Nil
Returned == response.kind # "none"

\* The responses of the output that carry the key of input month i.
RespOf(i) == {k \in 1..Len(response.resp) : KeyOf(response.resp[k]) = KeyOf(request.months[i])}

RECURSIVE SumRelays(_, _)
SumRelays(txs, ch) ==
    IF txs = <<>> THEN 0
    ELSE (IF txs[1].ChainID = ch THEN txs[1].NumRelays ELSE 0) + SumRelays(Tail(txs), ch)

ChainsOf(txs) == {txs[j].ChainID : j \in 1..Len(txs)}

(***************************************************************************)
(* Properties of MonthlyRewardsEndpoint (EndpointSpec).                    *)
(***************************************************************************)
\* C1: the responses come back sorted descending by year and then by month:
\* every adjacent pair of the output is strictly descending in (year, month).
C1_SortedDescending ==
    response.kind = "ok" =>
        \A k \in 1..(Len(response.resp) - 1) :
            LET a == response.resp[k]
                b == response.resp[k + 1]
            IN  \/ a.Year > b.Year
                \/ a.Year = b.Year /\ a.Month > b.Month

\* The example of the specification: (2023,1), (2022,12), (2023,3) come back
\* as (2023,3), (2023,1), (2022,12).
C1_Witness ==
    /\ response.kind = "ok"
    /\ [i \in 1..Len(request.months) |-> KeyOf(request.months[i])]
           = <<(<<2023, 1>>), (<<2022, 12>>), (<<2023, 3>>)>>
    /\ [k \in 1..Len(response.resp) |-> KeyOf(response.resp[k])]
           = <<(<<2023, 3>>), (<<2023, 1>>), (<<2022, 12>>)>>

\* C6: a chain id the chain table does not know gets a relays_by_chain entry
\* whose chain and name are both the raw id, and the request does not fail.
C6_UnknownChainUsesRawId ==
    (request.kind = "ok" /\ Returned) =>
        /\ response.kind = "ok"
        /\ \A i \in 1..Len(request.months) :
             \A ch \in ChainsOf(request.months[i].Transactions) :
                UnknownChain(ch) =>
                    \A k \in RespOf(i) :
                        \E e \in 1..Len(response.resp[k].RelaysByChain) :
                            /\ response.resp[k].RelaysByChain[e].Chain = ch
                            /\ response.resp[k].RelaysByChain[e].Name = ch

C6_Witness ==
    /\ response.kind = "ok"
    /\ \E k \in 1..Len(response.resp) :
         \E e \in 1..Len(response.resp[k].RelaysByChain) :
            /\ response.resp[k].RelaysByChain[e].Chain = "0099"
            /\ response.resp[k].RelaysByChain[e].NumRelays >= 1

\* C7: when svc.RewardsByMonth fails the endpoint returns an error and a nil
\* response, no summary with it.
C7_ServiceErrorReturnsNothing ==
    (request.kind = "svcerr" /\ Returned) =>
        /\ response.kind = "error"
        /\ response.isNil
        /\ response.resp = <<>>

C7_Witness ==
    /\ request.kind = "svcerr"
    /\ Len(request.months) >= 2
    /\ response.kind = "error"

\* C8: there is exactly one response per input month, and its transactions
\* have the hashes of that month's Transactions, in the same order and number.
C8_TransactionsPreserved ==
    response.kind = "ok" =>
        /\ Len(response.resp) = Len(request.months)
        /\ \A i \in 1..Len(request.months) :
             /\ Cardinality(RespOf(i)) = 1
             /\ \A k \in RespOf(i) :
                  Hashes(response.resp[k].Transactions)
                      = Hashes(request.months[i].Transactions)

C8_Witness ==
    /\ response.kind = "ok"
    /\ Len(request.months) >= 2
    /\ \E k \in 1..Len(response.resp) :
         /\ Len(response.resp[k].Transactions) = 2
         /\ KeyOf(response.resp[k]) # KeyOf(request.months[k])

\* C9: relays_by_chain has exactly one entry per chain id occurring among the
\* month's transactions, with num_relays the sum of NumRelays over the
\* month's transactions of that chain id, and no entry for any other id.
C9_RelaysByChainSums ==
    response.kind = "ok" =>
        \A i \in 1..Len(request.months) :
            \A k \in RespOf(i) :
                LET txs == request.months[i].Transactions
                    rbc == response.resp[k].RelaysByChain
                IN  \A ch \in ChainIDs :
                        LET es == {e \in 1..Len(rbc) : rbc[e].Chain = ch} IN
                        /\ Cardinality(es) = (IF ch \in ChainsOf(txs) THEN 1 ELSE 0)
                        /\ \A e \in es : rbc[e].NumRelays = SumRelays(txs, ch)

C9_Witness ==
    /\ response.kind = "ok"
    /\ \E k \in 1..Len(response.resp) :
         LET r == response.resp[k] IN
         /\ Len(r.Transactions) = 2
         /\ Len(r.RelaysByChain) = 1
         /\ r.RelaysByChain[1].NumRelays = 3

(***************************************************************************)
(* Properties of BlockTime called sequentially (Spec).                     *)
(***************************************************************************)
SameTimePerHeight == \A h \in Heights : Cardinality(resolved[h]) <= 1

C3_SetFailureNonFatal ==
    \A c \in Callers :
        (pc[c] = "idle" /\ setRes[c] = "err") =>
            ret[c] = [kind |-> "ok", time |-> fetched[c]]

\* C4: when the remote lookup fails (transport error, or a body that does
\* not parse), BlockTime returns an error to its caller, Set is not called
\* and nothing is stored for the height.
C4_LookupFailureReturnsError ==
    \A c \in Callers :
        (pc[c] = "idle" /\ getRes[c] = "miss"
            /\ remote[c] \in {"transport_err_nil", "transport_err_resp", "malformed"}) =>
                /\ ret[c].kind = "error"
                /\ setRes[c] = "none"
                /\ height[c] \notin DOMAIN cache

(***************************************************************************)
(* Properties of the provider under concurrent callers (ConcSpec).         *)
(***************************************************************************)
\* C5: concurrent BlockTime calls for the same uncached height collapse to a
\* single remote lookup and a single cache write: no two overlapping calls
\* for one height have both fetched the block and stand before Set.
C5_SingleFlight ==
    \A c, d \in Callers :
        (c # d /\ height[c] = height[d]) => ~(pc[c] = "set" /\ pc[d] = "set")

\* C10: Node does not fail on a chain id the chain table does not know, and
\* the chain it returns for that id has the raw id as its name.
C10_NodeUnknownChainFallsBack ==
    nodeRet.kind = "ok" =>
        \A i \in 1..Len(nodeRet.upstream) :
            UnknownChain(nodeRet.upstream[i]) =>
                nodeRet.chains[i].Name = nodeRet.upstream[i]

====
